---- MODULE Spec2Model ----
(***************************************************************************)
(* The incremental GradCafe crawler scrape.py (resume file, robots check,   *)
(* list pages, detail enrichment, flush) as a state machine, one action    *)
(* per step of main() and of the row loop of _extract_rows_from_html.      *)
(* The repository holds two versions of the script with the same main():   *)
(* module_4/src/module_2_ref/scrape.py, which enriches every new row from  *)
(* its detail page, and module_3/module_2_ref/scrape.py, which reads the   *)
(* listing only; a run executes one of them.  The network and the file     *)
(* system are the environment: what a GET returns is chosen when the GET   *)
(* is made, a list page that was served once is served unchanged later.    *)
(***************************************************************************)
EXTENDS Integers, Sequences, FiniteSets, TLC

(***************************************************************************)
(* Bounds of the model.                                                    *)
(***************************************************************************)
\* detail links /result/1 .. /result/MaxId exist on the site
MaxId == 2
\* a list page holds at most MaxRows <tr> elements
MaxRows == 2
\* a resume file found at startup holds at most MaxResume records
MaxResume == 2
\* the crawler is invoked at most MaxRuns times in a row
MaxRuns == 2
\* scrape.py:28 sets TARGET = 30000; the model scales it down so that the
\* `len(rows) < TARGET` test of the page loop is reached both ways
TARGET == 2
\* server threads that handle requests at the same time
MaxReq == 2
\* records in the JSON array one load step reads
MaxBatch == 2

(***************************************************************************)
(* Strings.  TLC's strings support Len, SubSeq and \o; the Python string   *)
(* methods the crawler uses are computed character by character.           *)
(***************************************************************************)
char_at(s, i) == SubSeq(s, i, i)

\* the lower-case letter of every upper-case letter, and the reverse
ToLower ==
    "A" :> "a" @@ "B" :> "b" @@ "C" :> "c" @@ "D" :> "d" @@ "E" :> "e" @@ "F" :> "f" @@ "G" :> "g" @@
    "H" :> "h" @@ "I" :> "i" @@ "J" :> "j" @@ "K" :> "k" @@ "L" :> "l" @@ "M" :> "m" @@ "N" :> "n" @@
    "O" :> "o" @@ "P" :> "p" @@ "Q" :> "q" @@ "R" :> "r" @@ "S" :> "s" @@ "T" :> "t" @@ "U" :> "u" @@
    "V" :> "v" @@ "W" :> "w" @@ "X" :> "x" @@ "Y" :> "y" @@ "Z" :> "z"

ToUpper ==
    "a" :> "A" @@ "b" :> "B" @@ "c" :> "C" @@ "d" :> "D" @@ "e" :> "E" @@ "f" :> "F" @@ "g" :> "G" @@
    "h" :> "H" @@ "i" :> "I" @@ "j" :> "J" @@ "k" :> "K" @@ "l" :> "L" @@ "m" :> "M" @@ "n" :> "N" @@
    "o" :> "O" @@ "p" :> "P" @@ "q" :> "Q" @@ "r" :> "R" @@ "s" :> "S" @@ "t" :> "T" @@ "u" :> "U" @@
    "v" :> "V" @@ "w" :> "W" @@ "x" :> "X" @@ "y" :> "Y" @@ "z" :> "Z"

lower_char(c) == IF c \in DOMAIN ToLower THEN ToLower[c] ELSE c

upper_char(c) == IF c \in DOMAIN ToUpper THEN ToUpper[c] ELSE c

is_alpha(c) == c \in DOMAIN ToLower \/ c \in DOMAIN ToUpper

RECURSIVE lower(_)
lower(s) ==
    IF Len(s) = 0 THEN "" ELSE lower_char(char_at(s, 1)) \o lower(SubSeq(s, 2, Len(s)))

\* str.title(): the first letter of every run of letters in upper case, the
\* other letters in lower case
RECURSIVE title_from(_, _)
title_from(s, prev_alpha) ==
    IF Len(s) = 0 THEN ""
    ELSE LET c == char_at(s, 1)
         IN  (IF prev_alpha THEN lower_char(c) ELSE upper_char(c))
             \o title_from(SubSeq(s, 2, Len(s)), is_alpha(c))

title(s) == title_from(s, FALSE)

RECURSIVE lstrip(_)
lstrip(s) ==
    IF Len(s) > 0 /\ char_at(s, 1) = " " THEN lstrip(SubSeq(s, 2, Len(s))) ELSE s

RECURSIVE rstrip(_)
rstrip(s) ==
    IF Len(s) > 0 /\ char_at(s, Len(s)) = " " THEN rstrip(SubSeq(s, 1, Len(s) - 1)) ELSE s

strip(s) == rstrip(lstrip(s))

startswith(s, prefix) ==
    Len(s) >= Len(prefix) /\ SubSeq(s, 1, Len(prefix)) = prefix

\* position of the first occurrence of the one-character string c in s at or
\* after position i, 0 if none
RECURSIVE find_from(_, _, _)
find_from(s, c, i) ==
    IF i > Len(s) THEN 0
    ELSE IF char_at(s, i) = c THEN i
    ELSE find_from(s, c, i + 1)

find_char(s, c) == find_from(s, c, 1)

\* s.split(":", 1)[1], used only on lines that start with "<field>:"
after_colon(s) == SubSeq(s, find_char(s, ":") + 1, Len(s))

(***************************************************************************)
(* URLs.                                                                   *)
(***************************************************************************)
URL == "https://www.thegradcafe.com/survey/"

\* urlparse(URL): scheme://netloc is everything before the first "/" that
\* follows "://", the path is the rest ("/" when there is none)
scheme_len(u) == find_char(u, ":") + 2

netloc_end(u) ==
    LET rest == SubSeq(u, scheme_len(u) + 1, Len(u))
        slash == find_char(rest, "/")
    IN  IF slash = 0 THEN Len(u) ELSE scheme_len(u) + slash - 1

url_base(u) == SubSeq(u, 1, netloc_end(u))

url_path(u) ==
    LET p == SubSeq(u, netloc_end(u) + 1, Len(u)) IN IF p = "" THEN "/" ELSE p

\* urljoin(page_url, href) for an href that is an absolute path ("/result/7"):
\* the origin of page_url followed by href; path and query of page_url drop out
urljoin(page_url, href) == url_base(page_url) \o href

\* f"{URL}?page={page}"
page_url_of(page) == IF page = 1 THEN URL ELSE URL \o "?page=" \o ToString(page)

(***************************************************************************)
(* Python values: a dict is a function from its keys to strings; None and  *)
(* the empty string are both falsy and both written "".                    *)
(***************************************************************************)
EmptyDict == << >>

dict_get(d, key) == IF key \in DOMAIN d THEN d[key] ELSE ""

\* `a or b`
py_or_drops_fallback(a, b) == a

py_or_prefers_fallback(a, b) == IF b # "" THEN b ELSE a

py_or(a, b) == IF a # "" THEN a ELSE b

(***************************************************************************)
(* _robots_allowed.  The body of robots.txt is held as the sequence of its *)
(* lines (txt.splitlines()).                                               *)
(***************************************************************************)
\* line 63: `rule and path.startswith(rule)`
rule_blocks_if_equal(rule, path) == rule # "" /\ path = rule

rule_blocks(rule, path) == rule # "" /\ startswith(path, rule)

\* lines 54-62: the Disallow values of the lines that follow a
\* `User-agent: *` line, up to the next User-agent line
RECURSIVE robots_disallows(_, _, _)
robots_disallows(lines, in_star, disallows) ==
    IF lines = << >> THEN disallows
    ELSE LET s == strip(Head(lines))
             low == lower(s)
             rest == Tail(lines)
         IN  IF s = "" \/ startswith(s, "#")
             THEN robots_disallows(rest, in_star, disallows)
             ELSE IF startswith(low, "user-agent:")
             THEN robots_disallows(rest, strip(after_colon(s)) = "*", disallows)
             ELSE IF in_star /\ startswith(low, "disallow:")
             THEN robots_disallows(rest, in_star, Append(disallows, strip(after_colon(s))))
             ELSE robots_disallows(rest, in_star, disallows)

robots_allowed(txt_lines, path) ==
    LET disallows == robots_disallows(txt_lines, FALSE, << >>)
    IN  ~ \E i \in DOMAIN disallows : rule_blocks(disallows[i], path)

\* The bodies GET /robots.txt may return.
RobotsBodies ==
    { << "<html><body>404 Not Found</body></html>" >>,
      << "%PDF-1.4 user-agent * disallow /survey/" >>,
      << "User-agent: *", "Disallow: /survey/" >>,
      << "# policy", "", "user-agent: *", "  Disallow: /  " >>,
      << "User-agent: *", "Disallow: /admin/", "Disallow:", "User-agent: Googlebot", "Disallow: /survey/" >>,
      << "User-agent: Googlebot", "Disallow: /", "USER-AGENT: *", "Allow: /", "DISALLOW: /sur" >> }

(***************************************************************************)
(* _norm_status.                                                           *)
(***************************************************************************)
norm_status(s0) ==
    LET s == lower(s0)
    IN  IF startswith(s, "accept") THEN "Accepted"
        ELSE IF startswith(s, "reject") THEN "Rejected"
        ELSE IF startswith(s, "wait") THEN "Wait listed"
        ELSE IF startswith(s, "interview") THEN "Interview"
        ELSE IF s # "" THEN title(s) ELSE ""

(***************************************************************************)
(* A list page is the sequence of its <tr> elements.  A <tr> is held as    *)
(* what the parser reads from it: the href of its a[href^="/result/"]      *)
(* ("" if it has none), the token status_pat finds in its text ("" if      *)
(* none), the date of its third cell, its Fall/Spring term, the program    *)
(* and degree spans of its middle cell, the text of its link to a          *)
(* university and its quoted comment.                                      *)
(***************************************************************************)
result_href(i) == "/result/" \o ToString(i)

status_text_of(i) ==
    CASE i = 1 -> "Accepted"
      [] i = 2 -> "rejected"
      [] i = 3 -> "Waitlisted"
      [] OTHER -> "Interview"

\* the primary row of posting i
tr_primary(i) ==
    [ href |-> result_href(i), status_text |-> status_text_of(i),
      date_text |-> "2025-09-14", term |-> "Fall 2026",
      program |-> "Program " \o ToString(i), degree |-> "PhD",
      university |-> "Stanford University", comment |-> "" ]

\* a row with a link and no status token (a header row of a posting)
tr_linkonly ==
    [ href |-> result_href(1), status_text |-> "",
      date_text |-> "", term |-> "", program |-> "", degree |-> "",
      university |-> "", comment |-> "" ]

\* a continuation row: no link, a status word in its comment text
tr_cont ==
    [ href |-> "", status_text |-> "accepted",
      date_text |-> "", term |-> "", program |-> "", degree |-> "",
      university |-> "", comment |-> "accepted with funding" ]

TableRows == { tr_primary(i) : i \in 1..MaxId } \cup { tr_linkonly, tr_cont }

RECURSIVE SeqsUpTo(_, _)
SeqsUpTo(S, n) ==
    IF n = 0 THEN { << >> }
    ELSE LET shorter == SeqsUpTo(S, n - 1)
         IN  shorter \cup { Append(q, x) : q \in { r \in shorter : Len(r) = n - 1 }, x \in S }

\* the list pages the site may serve
ListPages == SeqsUpTo(TableRows, MaxRows)

(***************************************************************************)
(* A detail page, as _parse_detail_fields returns it.                      *)
(***************************************************************************)
DetailKeys ==
    { "GPA", "GRE", "GRE V", "GRE AW", "university", "program", "degree",
      "notes", "us_intl", "decision", "notification_on" }

detail_full ==
    [ k \in DetailKeys |->
        CASE k = "GPA" -> "3.90"
          [] k = "GRE" -> "330"
          [] k = "GRE V" -> "165"
          [] k = "GRE AW" -> "4.5"
          [] k = "university" -> "MIT"
          [] k = "program" -> "Physics"
          [] k = "degree" -> "Masters"
          [] k = "notes" -> "funded"
          [] k = "us_intl" -> "International"
          [] k = "decision" -> "Rejected"
          [] k = "notification_on" -> "March 01, 2025" ]

\* a detail page that holds a Decision and a Notification and nothing else
detail_decision_only ==
    [ k \in DetailKeys |->
        CASE k = "decision" -> "Waitlisted"
          [] k = "notification_on" -> "April 10, 2025"
          [] OTHER -> "" ]

\* what _fetch_detail may return: {} when the GET or the parse raised
DetailResults == { EmptyDict, detail_full, detail_decision_only }

(***************************************************************************)
(* Records, and applicant_data.json.                                       *)
(***************************************************************************)
\* lines 216-217: `note_date if status == "<label>" else ""`
note_date_always(status, label, note_date) == note_date

note_date_swapped(status, label, note_date) ==
    IF status \in { "Accepted", "Rejected" } /\ status # label THEN note_date ELSE ""

note_date_if(status, label, note_date) == IF status = label THEN note_date ELSE ""

\* lines 212-236: the record built from a row's listing fields and the dict
\* d that _fetch_detail returned
make_record(entry_url, list_status, date_added, start_term, degree, program, university, comments, det) ==
    LET status == norm_status(py_or(dict_get(det, "decision"), list_status))
        note_date == dict_get(det, "notification_on")
    IN  [ status |-> status,
          date_added |-> date_added,
          acceptance_date |-> note_date_if(status, "Accepted", note_date),
          rejection_date |-> note_date_if(status, "Rejected", note_date),
          start_term |-> start_term,
          degree |-> py_or(dict_get(det, "degree"), degree),
          program |-> py_or(dict_get(det, "program"), program),
          university |-> py_or(dict_get(det, "university"), university),
          comments |-> py_or(dict_get(det, "notes"), comments),
          entry_url |-> entry_url,
          us_international |-> dict_get(det, "us_intl"),
          gre |-> dict_get(det, "GRE"),
          gre_v |-> dict_get(det, "GRE V"),
          gpa |-> dict_get(det, "GPA"),
          gre_aw |-> dict_get(det, "GRE AW") ]

\* a record an earlier run left in the file; url "" is a record that has no
\* entry_url (main tests for it when it rebuilds the seen set)
old_record(url) ==
    [ status |-> "Accepted", date_added |-> "2024-01-05",
      acceptance_date |-> "", rejection_date |-> "", start_term |-> "Fall 2025",
      degree |-> "PhD", program |-> "History", university |-> "", comments |-> "",
      entry_url |-> url, us_international |-> "", gre |-> "", gre_v |-> "",
      gpa |-> "", gre_aw |-> "" ]

\* The file is absent, holds a JSON array of records ("list"), holds text
\* json.loads rejects ("unparseable": empty or cut short), or holds the JSON
\* text {} or "" ("empty_object"): json.loads accepts it, the loop over it
\* at line 257 has nothing to visit, and rows is then not a list.
file_absent == [ kind |-> "absent", recs |-> << >> ]

file_unparseable == [ kind |-> "unparseable", recs |-> << >> ]

file_empty_object == [ kind |-> "empty_object", recs |-> << >> ]

\* json.dumps(rows) written in full; json.loads of it gives rows back
file_list(records) == [ kind |-> "list", recs |-> records ]

\* the non-empty entry_url values of a record list
urls_of(records) == { records[i].entry_url : i \in DOMAIN records } \ { "" }

ResumeUrls == { "" } \cup { urljoin(URL, result_href(i)) : i \in 1..MaxId }

\* the files a run may find at startup: none, an unparseable one, one that
\* holds {} or "", or a list in which no entry_url occurs twice
StartFiles ==
    { file_absent, file_unparseable, file_empty_object } \cup
    { file_list(q) : q \in { r \in SeqsUpTo({ old_record(u) : u \in ResumeUrls }, MaxResume) :
                               \A i, j \in DOMAIN r :
                                   (i # j /\ r[i].entry_url # "") => r[i].entry_url # r[j].entry_url } }

(***************************************************************************)
(* State.                                                                  *)
(***************************************************************************)
VARIABLES
    script,          \* the version of scrape.py that runs: "module_3" or "module_4"
    file,            \* applicant_data.json
    site,            \* the list pages served so far: site[p] is page p
    run,             \* number of this invocation of scrape.py
    pc,              \* where main() is
    exit_code,       \* exit status of the process, -1 while it runs
    raised,          \* the call whose exception ended the process, "" if none
    txt,             \* _robots_allowed: the robots.txt body
    rows,            \* main: the record list
    rows_is_list,    \* main: rows is a Python list (not the {} or "" json.loads gave)
    seen,            \* main: the set of entry_url values seen
    page,            \* main: number of the list page
    html,            \* _extract_rows_from_html: the <tr> elements of the page
    tr,              \* _extract_rows_from_html: index of the next <tr>
    new_rows,        \* _extract_rows_from_html: new_rows / main: page_rows
    d,               \* _extract_rows_from_html: the dict of the last detail fetch
    start_file,      \* history: the file as this run found it
    resumed,         \* history: the record list as loaded at startup
    failed_stubs,    \* history: the rows whose detail fetch returned {}
    list_fetches,    \* history: GETs of list pages made by this run
    detail_fetches,  \* history: GETs of detail pages made by this run
    writes,          \* history: write_text calls completed by this run
    added_on,        \* history: added_on[p] = records accepted on page p
    prev_file        \* history: the file when the previous run returned

\* the web application around the pipeline
VARIABLES
    app,             \* the application that serves: "module_3", "module_4" or "module_5"
    BUSY,            \* flask_app: app.config["BUSY"]
    lock,            \* pull.lock exists
    req,             \* req[t]: the request that server thread t handles
    table            \* public.applicants, its rows in insertion order

crawl_vars ==
    << script, file, site, run, pc, exit_code, raised, txt, rows, rows_is_list, seen, page, html, tr, new_rows, d,
       start_file, resumed, failed_stubs, list_fetches, detail_fetches, writes, added_on,
       prev_file >>

pull_vars == << app, BUSY, lock, req, table >>

vars == << crawl_vars, pull_vars >>

\* the value of a local that holds nothing (not yet assigned, or out of scope)
Unset == << >>

Running == { "start", "robots", "load", "fetch", "extract", "flush", "flush_write" }

Ended == { "denied", "done", "crashed", "killed" }

\* the state of a process that has just been started
Fresh ==
    /\ pc = "start"
    /\ exit_code = -1
    /\ raised = ""
    /\ txt = Unset
    /\ rows = << >>
    /\ rows_is_list = TRUE
    /\ seen = {}
    /\ page = 1
    /\ html = Unset
    /\ tr = 1
    /\ new_rows = << >>
    /\ d = Unset
    /\ resumed = << >>
    /\ failed_stubs = {}
    /\ list_fetches = 0
    /\ detail_fetches = 0
    /\ writes = 0
    /\ added_on = << >>

Scripts == { "module_3", "module_4" }

\* the server threads that handle requests
Reqs == 1..MaxReq

\* a server thread that has no request yet; started, failed and raised are
\* history: the steps the request started, the step whose test it failed,
\* the exception a step raised; alone: no other request was being handled
\* when pull_data let this one in
idle_request ==
    [ route |-> "", at |-> "idle", status |-> 0, level |-> "", body |-> "",
      started |-> << >>, failed |-> "", raised |-> "", alone |-> TRUE ]

\* no request has reached the web application
NoPull ==
    /\ app = "module_4"
    /\ BUSY = FALSE
    /\ lock = FALSE
    /\ req = [ t \in Reqs |-> idle_request ]
    /\ table = << >>

Init ==
    /\ script \in Scripts
    /\ file \in StartFiles
    /\ site = << >>
    /\ run = 1
    /\ prev_file = file_absent
    /\ start_file = file
    /\ Fresh
    /\ NoPull

(***************************************************************************)
(* _extract_rows_from_html, one <tr> at a time.                            *)
(***************************************************************************)
\* line 170: tr.find_previous("tr"), none for the first row of the page
has_prev(trs, i) == i > 1

\* first match of a pattern searched in ctx = prev_text + " " + row_text
ctx_first(prev_value, own_value) == py_or(prev_value, own_value)

\* lines 190-191: the row's own /result/ link, else the previous row's one,
\* made absolute; "" when neither row has one
entry_url_of(trs, i, page_url) ==
    LET a == py_or(trs[i].href, IF has_prev(trs, i) THEN trs[i - 1].href ELSE "")
    IN  IF a # "" THEN urljoin(page_url, a) ELSE ""

\* line 192: `if not entry_url or entry_url in seen_urls: continue`
skips_url_without_dedup(entry_url, seen_urls) == entry_url = ""

skips_url_keeps_empty(entry_url, seen_urls) == entry_url \in seen_urls

skips_url(entry_url, seen_urls) == entry_url = "" \/ entry_url \in seen_urls

\* lines 167-193: the row is passed over (no status token, no identity, or seen)
row_skipped(trs, i, page_url, seen_urls) ==
    \/ trs[i].status_text = ""
    \/ skips_url(entry_url_of(trs, i, page_url), seen_urls)

\* lines 174-236: the record of row i, given the detail dict
row_record(trs, i, page_url, det) ==
    make_record(
        entry_url_of(trs, i, page_url),
        norm_status(trs[i].status_text),
        trs[i].date_text,
        ctx_first(IF has_prev(trs, i) THEN trs[i - 1].term ELSE "", trs[i].term),
        trs[i].degree,
        trs[i].program,
        "",
        ctx_first(IF has_prev(trs, i) THEN trs[i - 1].comment ELSE "", trs[i].comment),
        det)

(***************************************************************************)
(* _extract_rows_from_html of module_3/module_2_ref/scrape.py.             *)
(***************************************************************************)
\* module_3 lines 86-87: a row without /result/ link gets f"{page_url}#row"
entry_url_of_listing(trs, i, page_url) ==
    LET a == py_or(trs[i].href, IF has_prev(trs, i) THEN trs[i - 1].href ELSE "")
    IN  IF a # "" THEN urljoin(page_url, a) ELSE page_url \o "#row"

\* module_3 line 88: `if entry_url in seen_urls: continue`
skips_url_listing(entry_url, seen_urls) == entry_url \in seen_urls

\* module_3 lines 61, 88
row_skipped_listing(trs, i, page_url, seen_urls) ==
    \/ trs[i].status_text = ""
    \/ skips_url_listing(entry_url_of_listing(trs, i, page_url), seen_urls)

\* module_3 lines 67-120: the record of row i; the date found in the third
\* cell, else in ctx, goes to the date field that the status selects
row_record_listing(trs, i, page_url) ==
    LET status == norm_status(trs[i].status_text)
        prev_date == IF has_prev(trs, i) THEN trs[i - 1].date_text ELSE ""
        m_date == py_or(trs[i].date_text, ctx_first(prev_date, trs[i].date_text))
    IN  [ status |-> status,
          acceptance_date |-> IF m_date # "" /\ status = "Accepted" THEN m_date ELSE "",
          rejection_date |-> IF m_date # "" /\ status = "Rejected" THEN m_date ELSE "",
          start_term |-> ctx_first(IF has_prev(trs, i) THEN trs[i - 1].term ELSE "", trs[i].term),
          degree |-> trs[i].degree,
          program |-> trs[i].program,
          university |-> trs[i].university,
          comments |-> ctx_first(IF has_prev(trs, i) THEN trs[i - 1].comment ELSE "", trs[i].comment),
          entry_url |-> entry_url_of_listing(trs, i, page_url) ]

(***************************************************************************)
(* main().                                                                 *)
(***************************************************************************)
\* lines 257-259: the seen set rebuilt from the loaded records
resume_seen_forgotten(records) == {}

resume_seen(records) == urls_of(records)

(***************************************************************************)
(* Actions: main().                                                        *)
(***************************************************************************)
run_history == << script, run, prev_file, start_file >>

unchanged_locals == << txt, rows, rows_is_list, seen, page, html, tr, new_rows, d >>

unchanged_counts == << resumed, failed_stubs, list_fetches, detail_fetches, writes, added_on >>

\* line 53: GET /robots.txt returns a body
HttpGetRobots ==
    /\ pc = "start"
    /\ \E body \in RobotsBodies : txt' = body
    /\ pc' = "robots"
    /\ UNCHANGED << file, site, exit_code, raised, rows, rows_is_list, seen, page, html, tr, new_rows, d >>
    /\ UNCHANGED << unchanged_counts, run_history >>
    /\ UNCHANGED pull_vars

\* line 53: GET /robots.txt raises; nothing catches it and the process dies
\* with a traceback
HttpGetRobotsRaises ==
    /\ pc = "start"
    /\ raised' = "robots.txt"
    /\ pc' = "crashed"
    /\ exit_code' = 1
    /\ UNCHANGED << file, site, txt, rows, rows_is_list, seen, page, html, tr, new_rows, d >>
    /\ UNCHANGED << unchanged_counts, run_history >>
    /\ UNCHANGED pull_vars

\* lines 248-250: robots.txt disallows the path, main returns
RobotsDenied ==
    /\ pc = "robots"
    /\ ~ robots_allowed(txt, url_path(URL))
    /\ pc' = "denied"
    /\ exit_code' = 0
    /\ UNCHANGED << file, site, raised, unchanged_locals, unchanged_counts, run_history >>
    /\ UNCHANGED pull_vars

\* line 248: robots.txt allows the path
RobotsAllowed ==
    /\ pc = "robots"
    /\ robots_allowed(txt, url_path(URL))
    /\ pc' = "load"
    /\ txt' = Unset
    /\ UNCHANGED << file, site, exit_code, raised, rows, rows_is_list, seen, page, html, tr, new_rows, d >>
    /\ UNCHANGED << unchanged_counts, run_history >>
    /\ UNCHANGED pull_vars

\* lines 252-262: resume from applicant_data.json
LoadResume ==
    /\ pc = "load"
    /\ rows' = IF file.kind = "list" THEN file.recs ELSE << >>
    /\ rows_is_list' = (file.kind # "empty_object")
    /\ seen' = IF file.kind = "list" THEN resume_seen(file.recs) ELSE {}
    /\ resumed' = rows'
    /\ pc' = "fetch"
    /\ UNCHANGED << file, site, exit_code, raised, txt, page, html, tr, new_rows, d >>
    /\ UNCHANGED << failed_stubs, list_fetches, detail_fetches, writes, added_on, run_history >>
    /\ UNCHANGED pull_vars

\* line 274: page 1 is fetched unconditionally, a later page while
\* len(rows) < TARGET
loop_ignores_target(n_rows, page_no) == TRUE

loop_continues(n_rows, page_no) == page_no = 1 \/ n_rows < TARGET

\* lines 265, 276: GET of a list page returns; a page served before is served
\* unchanged
HttpGetList ==
    /\ pc = "fetch"
    /\ loop_continues(Len(rows), page)
    /\ IF page <= Len(site)
       THEN /\ html' = site[page]
            /\ site' = site
       ELSE /\ page = Len(site) + 1
            /\ \E content \in ListPages : html' = content
            /\ site' = Append(site, html')
    /\ tr' = 1
    /\ new_rows' = << >>
    /\ list_fetches' = list_fetches + 1
    /\ pc' = "extract"
    /\ UNCHANGED << file, exit_code, raised, txt, rows, rows_is_list, seen, page, d >>
    /\ UNCHANGED << resumed, failed_stubs, detail_fetches, writes, added_on, run_history >>
    /\ UNCHANGED pull_vars

\* lines 265, 276: GET of a list page raises; nothing catches it
HttpGetListRaises ==
    /\ pc = "fetch"
    /\ loop_continues(Len(rows), page)
    /\ raised' = "list page"
    /\ list_fetches' = list_fetches + 1
    /\ pc' = "crashed"
    /\ exit_code' = 1
    /\ UNCHANGED << file, site, txt, rows, rows_is_list, seen, page, html, tr, new_rows, d >>
    /\ UNCHANGED << resumed, failed_stubs, detail_fetches, writes, added_on, run_history >>
    /\ UNCHANGED pull_vars

\* lines 274, 288: the loop ends because len(rows) >= TARGET; main returns
TargetReached ==
    /\ pc = "fetch"
    /\ ~ loop_continues(Len(rows), page)
    /\ pc' = "done"
    /\ exit_code' = 0
    /\ UNCHANGED << file, site, raised, unchanged_locals, unchanged_counts, run_history >>
    /\ UNCHANGED pull_vars

\* line 238: seen_urls.add(entry_url)
seen_replaced(seen_urls, entry_url) == { entry_url }

seen_add(seen_urls, entry_url) == seen_urls \cup { entry_url }

\* the row at html[tr] is passed over by the version that runs
current_row_skipped ==
    IF script = "module_3"
    THEN row_skipped_listing(html, tr, page_url_of(page), seen)
    ELSE row_skipped(html, tr, page_url_of(page), seen)

\* lines 165-193: a <tr> that yields no record
SkipRow ==
    /\ pc = "extract"
    /\ tr <= Len(html)
    /\ current_row_skipped
    /\ tr' = tr + 1
    /\ UNCHANGED << file, site, pc, exit_code, raised, txt, rows, rows_is_list, seen, page, html, new_rows, d >>
    /\ UNCHANGED << unchanged_counts, run_history >>
    /\ UNCHANGED pull_vars

\* lines 195-238: a <tr> with an unseen identity: detail fetch (which returns
\* {} when it fails), record, new_rows.append, seen_urls.add
AcceptRow ==
    /\ pc = "extract"
    /\ script = "module_4"
    /\ tr <= Len(html)
    /\ ~ current_row_skipped
    /\ \E det \in DetailResults :
         /\ d' = det
         /\ new_rows' = Append(new_rows, row_record(html, tr, page_url_of(page), det))
         /\ failed_stubs' =
              IF det = EmptyDict
              THEN failed_stubs \cup
                     { [ url |-> entry_url_of(html, tr, page_url_of(page)), row |-> html[tr] ] }
              ELSE failed_stubs
    /\ seen' = seen_add(seen, entry_url_of(html, tr, page_url_of(page)))
    /\ detail_fetches' = detail_fetches + 1
    /\ tr' = tr + 1
    /\ UNCHANGED << file, site, pc, exit_code, raised, txt, rows, rows_is_list, page, html >>
    /\ UNCHANGED << resumed, list_fetches, writes, added_on, run_history >>
    /\ UNCHANGED pull_vars

\* module_3 lines 90-121: a <tr> with an unseen identity: record from the
\* listing, new_rows.append, seen_urls.add; no detail page is fetched
AcceptRowListing ==
    /\ pc = "extract"
    /\ script = "module_3"
    /\ tr <= Len(html)
    /\ ~ current_row_skipped
    /\ new_rows' = Append(new_rows, row_record_listing(html, tr, page_url_of(page)))
    /\ seen' = seen_add(seen, entry_url_of_listing(html, tr, page_url_of(page)))
    /\ tr' = tr + 1
    /\ UNCHANGED << file, site, pc, exit_code, raised, txt, rows, rows_is_list, page, html, d >>
    /\ UNCHANGED << unchanged_counts, run_history >>
    /\ UNCHANGED pull_vars

\* line 267: page 1 is written only `if page_rows`; line 281: a later page always
page_is_flushed(page_no, page_rows) == page_no # 1 \/ page_rows # << >>

\* lines 268, 279: rows.extend(page_rows)
list_extend_in_front(records, page_rows) == page_rows \o records

list_extend(records, page_rows) == records \o page_rows

\* lines 239, 266-268, 278-280: the page is parsed; rows.extend(page_rows),
\* which page 1 makes only `if page_rows`
ReturnRows ==
    /\ pc = "extract"
    /\ tr > Len(html)
    /\ rows_is_list \/ ~ page_is_flushed(page, new_rows)
    /\ rows' = list_extend(rows, new_rows)
    /\ added_on' = Append(added_on, Len(new_rows))
    /\ html' = Unset
    /\ tr' = 1
    /\ d' = Unset
    /\ IF page_is_flushed(page, new_rows)
       THEN /\ pc' = "flush"
            /\ page' = page
       ELSE /\ pc' = "fetch"
            /\ page' = 2
    /\ UNCHANGED << file, site, exit_code, raised, txt, rows_is_list, seen, new_rows >>
    /\ UNCHANGED << resumed, failed_stubs, list_fetches, detail_fetches, writes, run_history >>
    /\ UNCHANGED pull_vars

\* lines 268, 279: rows is the {} or "" that json.loads returned and has no
\* extend: AttributeError, which nothing catches
ExtendRaises ==
    /\ pc = "extract"
    /\ tr > Len(html)
    /\ ~ rows_is_list
    /\ page_is_flushed(page, new_rows)
    /\ raised' = "rows.extend"
    /\ pc' = "crashed"
    /\ exit_code' = 1
    /\ UNCHANGED << file, site, unchanged_locals, unchanged_counts, run_history >>
    /\ UNCHANGED pull_vars

\* lines 269, 281: write_text opens the file for writing, which truncates it
WriteTextOpen ==
    /\ pc = "flush"
    /\ file' = file_unparseable
    /\ pc' = "flush_write"
    /\ UNCHANGED << site, exit_code, raised, unchanged_locals, unchanged_counts, run_history >>
    /\ UNCHANGED pull_vars

\* line 283: `if added == 0: break`, for the pages of the while loop
loop_breaks(page_no, added) == page_no # 1 /\ added = 0

\* lines 269, 281-288: write_text writes json.dumps(rows) and closes the
\* file; then the next page, or main returns
WriteTextDone ==
    /\ pc = "flush_write"
    /\ file' = file_list(rows)
    /\ writes' = writes + 1
    /\ new_rows' = << >>
    /\ IF loop_breaks(page, Len(new_rows))
       THEN /\ pc' = "done"
            /\ exit_code' = 0
            /\ page' = page
       ELSE /\ pc' = "fetch"
            /\ exit_code' = exit_code
            /\ page' = page + 1
    /\ UNCHANGED << site, raised, txt, rows, rows_is_list, seen, html, tr, d >>
    /\ UNCHANGED << resumed, failed_stubs, list_fetches, detail_fetches, added_on, run_history >>
    /\ UNCHANGED pull_vars

\* the process is stopped from outside (kill, power loss): its memory is
\* gone, the file stays as it is
Kill ==
    /\ pc \in Running
    /\ pc' = "killed"
    /\ exit_code' = 137
    /\ raised' = ""
    /\ txt' = Unset
    /\ rows' = << >>
    /\ rows_is_list' = TRUE
    /\ seen' = {}
    /\ page' = 1
    /\ html' = Unset
    /\ tr' = 1
    /\ new_rows' = << >>
    /\ d' = Unset
    /\ resumed' = << >>
    /\ failed_stubs' = {}
    /\ list_fetches' = 0
    /\ detail_fetches' = 0
    /\ writes' = 0
    /\ added_on' = << >>
    /\ UNCHANGED << file, site, run_history >>
    /\ UNCHANGED pull_vars

\* scrape.py has returned from a complete crawl and is invoked again
Restart ==
    /\ pc = "done"
    /\ run < MaxRuns
    /\ run' = run + 1
    /\ prev_file' = file
    /\ pc' = "start"
    /\ exit_code' = -1
    /\ raised' = ""
    /\ txt' = Unset
    /\ rows' = << >>
    /\ rows_is_list' = TRUE
    /\ seen' = {}
    /\ page' = 1
    /\ html' = Unset
    /\ tr' = 1
    /\ new_rows' = << >>
    /\ d' = Unset
    /\ resumed' = << >>
    /\ failed_stubs' = {}
    /\ list_fetches' = 0
    /\ detail_fetches' = 0
    /\ writes' = 0
    /\ added_on' = << >>
    /\ start_file' = file
    /\ UNCHANGED << script, file, site >>
    /\ UNCHANGED pull_vars

Next ==
    \/ HttpGetRobots
    \/ HttpGetRobotsRaises
    \/ RobotsDenied
    \/ RobotsAllowed
    \/ LoadResume
    \/ HttpGetList
    \/ HttpGetListRaises
    \/ TargetReached
    \/ SkipRow
    \/ AcceptRow
    \/ AcceptRowListing
    \/ ReturnRows
    \/ ExtendRaises
    \/ WriteTextOpen
    \/ WriteTextDone
    \/ Kill
    \/ Restart

Spec == Init /\ [][Next]_vars

(***************************************************************************)
(* The caller of scrape.py: step 1 of pull_data in module_4/src/flask_app. *)
(***************************************************************************)
\* flask_app.py line 221: `if rc1 != 0 or not data_json.exists()` -> 500
scrape_step_fails(rc, data_json) == rc # 0 \/ data_json.kind = "absent"

(***************************************************************************)
(* The web applications: module_3/app.py, module_4/src/flask_app.py and    *)
(* module_5/src/app.py. Each server thread handles one request; a line of  *)
(* a handler that reads or writes the BUSY flag or pull.lock is one step.  *)
(* module_4 is modelled as it runs in production (app.testing is False).   *)
(***************************************************************************)
Apps == { "module_3", "module_4", "module_5" }

\* the pipeline, in the order in which pull_data calls its steps
Steps == << "scrape", "clean", "llm", "load" >>

StepNames == { Steps[k] : k \in DOMAIN Steps }

step_rank(step) == CHOOSE k \in DOMAIN Steps : Steps[k] = step

\* flask_app.py lines 200, 266: `app.config.get("BUSY") or LOCK_FILE.exists()`
is_busy_flag_only(flag, lock_exists) == flag

is_busy(flag, lock_exists) == flag \/ lock_exists

\* module_5 lines 39-41, module_3 lines 158, 221: the lock file exists
is_pull_running(lock_exists) == lock_exists

\* the busy test of the application that serves
busy_now ==
    IF app = "module_4" THEN is_busy(BUSY, lock) ELSE is_pull_running(lock)

\* the answer to a request that finds a pull running
busy_response(a, route) ==
    CASE a = "module_4" -> [ status |-> 409, level |-> "", body |-> "busy" ]
      [] a = "module_3" ->
            [ status |-> 302, level |-> "info",
              body |-> IF route = "/pull-data"
                       THEN "A data pull is already running"
                       ELSE "A data pull is running; Update Analysis is temporarily disabled." ]
      [] a = "module_5" ->
            [ status |-> 302, level |-> "warn",
              body |-> IF route = "/pull-data"
                       THEN "A pull is already running. Please wait."
                       ELSE "Update ignored: a data pull is currently running." ]

\* the answer of update_analysis when no pull runs
update_response(a) ==
    CASE a = "module_4" -> [ status |-> 200, level |-> "", body |-> "ok" ]
      [] a = "module_3" ->
            [ status |-> 302, level |-> "success", body |-> "Analysis refreshed" ]
      [] a = "module_5" ->
            [ status |-> 302, level |-> "success", body |-> "Analysis updated with the latest data." ]

\* the answer of pull_data when a step failed: module_4 gives the name of
\* the step under the key "step", the others redirect with a message
failure_response(a, step) ==
    CASE a = "module_4" -> [ status |-> 500, level |-> "", body |-> step ]
      [] a = "module_3" ->
            [ status |-> 302, level |-> "error",
              body |-> CASE step = "scrape" -> "Pull failed while fetching new posts."
                         [] step = "clean" -> "Pull failed at the clean step."
                         [] step = "llm" -> "LLM step completed with errors"
                         [] step = "load" -> "Database load failed." ]
      [] a = "module_5" ->
            [ status |-> 302, level |-> "error",
              body |-> CASE step = "scrape" -> "Pull step failed in scrape.py"
                         [] step = "clean" -> "Pull step failed in clean.py"
                         [] step = "llm" -> "LLM step failed"
                         [] step = "load" -> "Load step failed" ]

\* the answer of pull_data when every step succeeded
success_response(a) ==
    CASE a = "module_4" -> [ status |-> 200, level |-> "", body |-> "ok" ]
      [] a = "module_3" -> [ status |-> 302, level |-> "success", body |-> "Pull complete." ]
      [] a = "module_5" ->
            [ status |-> 302, level |-> "success",
              body |-> "Pull complete. New data (if any) added." ]

\* module_5 lines 157-160: applicant_data.json is not there after clean
data_missing_response ==
    [ status |-> 302, level |-> "error",
      body |-> "Pull failed: module_2/applicant_data.json not found after scrape/clean." ]

\* module_5 lines 212-214: `except OSError as e`
oserror_response ==
    [ status |-> 302, level |-> "error", body |-> "Pull failed: OSError" ]

\* an exception that no handler of the route catches: Flask answers 500
uncaught_response ==
    [ status |-> 500, level |-> "", body |-> "Internal Server Error" ]

\* what a step may leave as its output file: none, an empty one, a JSON array
StepOutputs == { file_absent, file_unparseable, file_list(<< >>) }

\* the test each application makes after a step has run
step_fails(a, step, rc, out) ==
    CASE step = "scrape" -> IF a = "module_5" THEN rc # 0 ELSE scrape_step_fails(rc, out)
      [] step = "clean" -> rc # 0
      [] step = "llm" ->
            ( CASE a = "module_4" -> rc # 0 \/ out.kind = "absent" \/ out.kind = "unparseable"
                [] a = "module_3" -> rc # 0 \/ out.kind = "absent"
                [] a = "module_5" -> rc # 0 \/ out.kind # "list" )
      [] step = "load" -> rc # 0

\* the exceptions a step of module_5 may raise: open() and subprocess.run
\* raise OSError; subprocess.run with encoding="utf-8" raises
\* UnicodeDecodeError, a ValueError, on output that is not UTF-8
Exceptions == { "OSError", "UnicodeDecodeError" }

\* module_5 line 212: `except OSError`
handler_catches(kind) == kind = "OSError"

\* where pull_data goes when it leaves the try block: module_4 clears BUSY
\* and unlinks the lock in its finally, module_3 unlinks it, module_5 calls
\* clear_pull_lock
after_try(a) == IF a = "module_4" THEN "finally" ELSE "unlink"

\* where pull_data goes after a step that succeeded
after_step_jumps_to_load(a, step) ==
    IF step = "load" THEN after_try(a) ELSE "load"

after_step(a, step) ==
    CASE step = "load" -> after_try(a)
      [] step = "clean" /\ a = "module_5" -> "check"
      [] OTHER -> Steps[step_rank(step) + 1]

(***************************************************************************)
(* The loaders and public.applicants. A record of the JSON array is its    *)
(* p_id key (0: it has none) and its url; a row of the table is its p_id   *)
(* and url columns.                                                        *)
(***************************************************************************)
RECURSIVE search_from(_, _, _)
\* the first index >= i at which sub occurs in s, 0 if none
search_from(s, sub, i) ==
    IF i + Len(sub) - 1 > Len(s) THEN 0
    ELSE IF SubSeq(s, i, i + Len(sub) - 1) = sub THEN i
    ELSE search_from(s, sub, i + 1)

DigitValue ==
    [ c \in { "0", "1", "2", "3", "4", "5", "6", "7", "8", "9" } |->
        CASE c = "0" -> 0 [] c = "1" -> 1 [] c = "2" -> 2 [] c = "3" -> 3
          [] c = "4" -> 4 [] c = "5" -> 5 [] c = "6" -> 6 [] c = "7" -> 7
          [] c = "8" -> 8 [] c = "9" -> 9 ]

RECURSIVE digits_from(_, _, _)
\* int() of the digits of s from index i on, given the value read so far
digits_from(s, i, n) ==
    IF i <= Len(s) /\ char_at(s, i) \in DOMAIN DigitValue
    THEN digits_from(s, i + 1, 10 * n + DigitValue[char_at(s, i)])
    ELSE n

\* _ID_FROM_URL = re.compile(r"/result/(\d+)"): the id in a url, 0 if none
id_from_url(url) ==
    LET k == search_from(url, "/result/", 1)
    IN  IF k = 0 THEN 0 ELSE digits_from(url, k + Len("/result/"), 0)

\* module_3/src/dal/loader.py lines 68-84: the id of the url, else the p_id key
derive_p_id(entry_url, fallback) ==
    IF id_from_url(entry_url) # 0 THEN id_from_url(entry_url) ELSE fallback

\* INSERT ... ON CONFLICT (p_id) DO NOTHING
insert_on_conflict(tbl, row) ==
    IF \E i \in DOMAIN tbl : tbl[i].p_id = row.p_id THEN tbl ELSE Append(tbl, row)

\* module_5 load_data.py lines 153-167: INSERT without p_id, which is SERIAL
insert_serial(tbl, item) ==
    Append(tbl, [ p_id |-> Len(tbl) + 1, url |-> item.url ])

RECURSIVE load_json_dal(_, _)
\* module_3/src/dal/loader.py load_json: records without id are skipped
load_json_dal(tbl, data) ==
    IF data = << >> THEN tbl
    ELSE LET r == Head(data)
             p_id == derive_p_id(r.url, r.p_id)
         IN  load_json_dal(IF p_id = 0 THEN tbl
                           ELSE insert_on_conflict(tbl, [ p_id |-> p_id, url |-> r.url ]),
                           Tail(data))

RECURSIVE load_json(_, _)
\* module_4/src/load_data.py load_json: only records with a p_id key are
\* inserted, and the url column is not filled
load_json(tbl, data) ==
    IF data = << >> THEN tbl
    ELSE LET record == Head(data)
         IN  load_json(IF record.p_id # 0
                       THEN insert_on_conflict(tbl, [ p_id |-> record.p_id, url |-> "" ])
                       ELSE tbl,
                       Tail(data))

RECURSIVE load_rows(_, _)
\* module_5/src/load_data.py main: every item is inserted
load_rows(tbl, items) ==
    IF items = << >> THEN tbl
    ELSE load_rows(insert_serial(tbl, Head(items)), Tail(items))

\* the load step of the application that serves
load_step(a, tbl, data) ==
    CASE a = "module_3" -> load_json_dal(tbl, data)
      [] a = "module_4" -> load_json(tbl, data)
      [] a = "module_5" -> load_rows(tbl, data)

\* the records the LLM step may hand to the loader: posting i as scrape.py
\* wrote it (entry_url, no p_id) and with a p_id key
LoadRecords ==
    { [ p_id |-> 0, url |-> urljoin(URL, result_href(i)) ] : i \in 1..MaxId } \cup
    { [ p_id |-> i, url |-> urljoin(URL, result_href(i)) ] : i \in 1..MaxId }

\* the JSON arrays a load step may read: the crawler writes no entry_url twice
LoadBatches ==
    { q \in SeqsUpTo(LoadRecords, MaxBatch) :
        \A i, j \in DOMAIN q : i # j => q[i].url # q[j].url }

(***************************************************************************)
(* Actions: the handlers of POST /pull-data and POST /update-analysis.     *)
(***************************************************************************)
answered(r, route, response, at) ==
    [ r EXCEPT !.route = route, !.at = at, !.status = response.status,
               !.level = response.level, !.body = response.body ]

\* pull_data finds a pull running (flask_app 200-201, module_5 191-196,
\* module_3 158-159)
PullDataBusy(t) ==
    /\ req[t].at = "idle"
    /\ busy_now
    /\ req' = [ req EXCEPT ![t] =
                  answered(@, "/pull-data", busy_response(app, "/pull-data"), "returned") ]
    /\ UNCHANGED << app, BUSY, lock, table, crawl_vars >>

\* pull_data finds no pull running and goes on
PullDataPasses(t) ==
    /\ req[t].at = "idle"
    /\ ~ busy_now
    /\ req' = [ req EXCEPT ![t].route = "/pull-data",
                           ![t].at = IF app = "module_4" THEN "mark" ELSE "lock",
                           ![t].alone = \A u \in Reqs \ { t } :
                                            req[u].at \in { "idle", "returned" } ]
    /\ UNCHANGED << app, BUSY, lock, table, crawl_vars >>

\* flask_app line 208: app.config["BUSY"] = True
MarkBusy(t) ==
    /\ req[t].at = "mark"
    /\ BUSY' = TRUE
    /\ req' = [ req EXCEPT ![t].at = "lock" ]
    /\ UNCHANGED << app, lock, table, crawl_vars >>

\* flask_app line 209, module_3 line 162: LOCK_FILE.write_text("running");
\* module_5 line 198: start_pull_lock()
WriteLock(t) ==
    /\ req[t].at = "lock"
    /\ lock' = TRUE
    /\ req' = [ req EXCEPT ![t].at = Steps[1] ]
    /\ UNCHANGED << app, BUSY, table, crawl_vars >>

\* a step runs and passes the test made after it; the load step has
\* inserted the records of the array it read
StepSucceeds(t) ==
    /\ req[t].at \in StepNames
    /\ \E rc \in { 0, 1 }, out \in StepOutputs : ~ step_fails(app, req[t].at, rc, out)
    /\ IF req[t].at = "load"
       THEN /\ \E data \in LoadBatches : table' = load_step(app, table, data)
            /\ req' = [ req EXCEPT ![t] =
                          answered([ @ EXCEPT !.started = Append(@, "load") ],
                                   "/pull-data", success_response(app), after_try(app)) ]
       ELSE /\ table' = table
            /\ req' = [ req EXCEPT ![t].started = Append(@, req[t].at),
                                   ![t].at = after_step(app, req[t].at) ]
    /\ UNCHANGED << app, BUSY, lock, crawl_vars >>

\* a step runs and fails the test made after it: pull_data returns
StepFails(t) ==
    /\ req[t].at \in StepNames
    /\ \E rc \in { 0, 1 }, out \in StepOutputs : step_fails(app, req[t].at, rc, out)
    /\ req' = [ req EXCEPT ![t] =
                  answered([ @ EXCEPT !.started = Append(@, req[t].at), !.failed = req[t].at ],
                           "/pull-data", failure_response(app, req[t].at), after_try(app)) ]
    /\ UNCHANGED << app, BUSY, lock, table, crawl_vars >>

\* module_5 lines 107-108: scrape.py or clean.py is not there; the step is
\* passed over as a success
StepSkipped(t) ==
    /\ app = "module_5"
    /\ req[t].at \in { "scrape", "clean" }
    /\ req' = [ req EXCEPT ![t].at = after_step(app, req[t].at) ]
    /\ UNCHANGED << app, BUSY, lock, table, crawl_vars >>

\* module_5 lines 157-158: applicant_data.json exists after scrape and clean
DataJsonFound(t) ==
    /\ req[t].at = "check"
    /\ req' = [ req EXCEPT ![t].at = "llm" ]
    /\ UNCHANGED << app, BUSY, lock, table, crawl_vars >>

\* module_5 lines 158-160: it does not exist
DataJsonMissing(t) ==
    /\ req[t].at = "check"
    /\ req' = [ req EXCEPT ![t] =
                  answered([ @ EXCEPT !.failed = "check" ],
                           "/pull-data", data_missing_response, after_try(app)) ]
    /\ UNCHANGED << app, BUSY, lock, table, crawl_vars >>

\* module_5: a step raises. `except OSError` (lines 212-214) clears the lock
\* and redirects; any other exception leaves pull_data at once
StepRaises(t) ==
    /\ app = "module_5"
    /\ req[t].at \in StepNames
    /\ \E kind \in Exceptions :
         req' = [ req EXCEPT ![t] =
                    IF handler_catches(kind)
                    THEN answered([ @ EXCEPT !.started = Append(@, req[t].at), !.raised = kind ],
                                  "/pull-data", oserror_response, after_try(app))
                    ELSE answered([ @ EXCEPT !.started = Append(@, req[t].at), !.raised = kind ],
                                  "/pull-data", uncaught_response, "returned") ]
    /\ UNCHANGED << app, BUSY, lock, table, crawl_vars >>

\* flask_app line 257: app.config["BUSY"] = False
ClearBusy(t) ==
    /\ req[t].at = "finally"
    /\ BUSY' = FALSE
    /\ req' = [ req EXCEPT ![t].at = "unlink" ]
    /\ UNCHANGED << app, lock, table, crawl_vars >>

\* flask_app line 259, module_3 line 212: LOCK_FILE.unlink(missing_ok=True);
\* module_5 lines 53-54: os.remove if the file exists
UnlinkLock(t) ==
    /\ req[t].at = "unlink"
    /\ lock' = FALSE
    /\ req' = [ req EXCEPT ![t].at = "returned" ]
    /\ UNCHANGED << app, BUSY, table, crawl_vars >>

\* flask_app lines 260-261, module_3 lines 213-214, module_5 lines 55-56:
\* the removal raises and the handler passes over it; the file stays
UnlinkRaises(t) ==
    /\ req[t].at = "unlink"
    /\ lock
    /\ req' = [ req EXCEPT ![t].at = "returned" ]
    /\ UNCHANGED << app, BUSY, lock, table, crawl_vars >>

\* update_analysis finds a pull running
UpdateAnalysisBusy(t) ==
    /\ req[t].at = "idle"
    /\ busy_now
    /\ req' = [ req EXCEPT ![t] =
                  answered(@, "/update-analysis", busy_response(app, "/update-analysis"),
                           "returned") ]
    /\ UNCHANGED << app, BUSY, lock, table, crawl_vars >>

\* update_analysis finds no pull running
UpdateAnalysisOk(t) ==
    /\ req[t].at = "idle"
    /\ ~ busy_now
    /\ req' = [ req EXCEPT ![t] =
                  answered(@, "/update-analysis", update_response(app), "returned") ]
    /\ UNCHANGED << app, BUSY, lock, table, crawl_vars >>

\* the crawler is at rest in the specification of the web application
NoCrawl ==
    /\ script = "module_4"
    /\ file = file_absent
    /\ site = << >>
    /\ run = 1
    /\ prev_file = file_absent
    /\ start_file = file_absent
    /\ Fresh

\* the server starts: the BUSY flag is what the configuration gives it
\* (False unless overridden), and pull.lock may be there from before
PullInit ==
    /\ app \in Apps
    /\ BUSY \in (IF app = "module_4" THEN BOOLEAN ELSE { FALSE })
    /\ lock \in BOOLEAN
    /\ req = [ t \in Reqs |-> idle_request ]
    /\ table = << >>
    /\ NoCrawl

PullNext ==
    \/ \E t \in Reqs : PullDataBusy(t)
    \/ \E t \in Reqs : PullDataPasses(t)
    \/ \E t \in Reqs : MarkBusy(t)
    \/ \E t \in Reqs : WriteLock(t)
    \/ \E t \in Reqs : StepSucceeds(t)
    \/ \E t \in Reqs : StepFails(t)
    \/ \E t \in Reqs : StepSkipped(t)
    \/ \E t \in Reqs : DataJsonFound(t)
    \/ \E t \in Reqs : DataJsonMissing(t)
    \/ \E t \in Reqs : StepRaises(t)
    \/ \E t \in Reqs : ClearBusy(t)
    \/ \E t \in Reqs : UnlinkLock(t)
    \/ \E t \in Reqs : UnlinkRaises(t)
    \/ \E t \in Reqs : UpdateAnalysisBusy(t)
    \/ \E t \in Reqs : UpdateAnalysisOk(t)

PullSpec == PullInit /\ [][PullNext]_vars

(***************************************************************************)
(* Properties.                                                             *)
(***************************************************************************)
\* the records accepted so far by this run, in the order of acceptance
Accepted ==
    SubSeq(rows, Len(resumed) + 1, Len(rows)) \o (IF pc = "extract" THEN new_rows ELSE << >>)

\* row i of page p of the site carries a status token and has identity u
StubAt(p, i, u) ==
    /\ site[p][i].status_text # ""
    /\ u = IF script = "module_3"
           THEN entry_url_of_listing(site[p], i, page_url_of(p))
           ELSE entry_url_of(site[p], i, page_url_of(p))

\* C1: among the records a run accepts no two have the same entry_url, and
\* none has the entry_url of a record loaded from the resume file, whatever
\* number of pages has been processed.
C1_DedupInvariant ==
    /\ \A i, j \in DOMAIN Accepted : i # j => Accepted[i].entry_url # Accepted[j].entry_url
    /\ \A i \in DOMAIN Accepted : Accepted[i].entry_url \notin urls_of(resumed)

\* C1 witness: a finished run that accepted a record although the site showed
\* a resumed identity and showed the accepted identity twice.
C1_Witness ==
    /\ pc = "done"
    /\ Len(Accepted) >= 1
    /\ \E p \in DOMAIN site : \E i \in DOMAIN site[p] : \E u \in urls_of(resumed) : StubAt(p, i, u)
    /\ \E p \in DOMAIN site : \E i, j \in DOMAIN site[p] :
         /\ i # j
         /\ StubAt(p, i, Accepted[1].entry_url)
         /\ StubAt(p, j, Accepted[1].entry_url)

\* C2: a run that starts from the file a complete run left and sees the
\* unchanged site ends with the same number of records and the same set of
\* entry_url values in the file, and accepts no record.
C2_Idempotent ==
    (run > 1 /\ pc = "done") =>
        /\ file.kind = prev_file.kind
        /\ Len(file.recs) = Len(prev_file.recs)
        /\ urls_of(file.recs) = urls_of(prev_file.recs)
        /\ Len(Accepted) = 0

\* C2 witness: the second run has fetched list pages and returned, and the
\* file holds records the first run accepted.
C2_Witness ==
    /\ run = 2
    /\ pc = "done"
    /\ list_fetches >= 2
    /\ \E i \in DOMAIN file.recs : file.recs[i] \notin { old_record(u) : u \in ResumeUrls }

RECURSIVE SumSeq(_, _)
SumSeq(q, n) == IF n = 0 THEN 0 ELSE q[n] + SumSeq(q, n - 1)

\* page k was parsed and is the first page on which nothing was accepted
FirstEmptyPage(k) ==
    /\ k \in DOMAIN added_on
    /\ added_on[k] = 0
    /\ \A j \in 1..(k - 1) : added_on[j] > 0

\* C3: if list page k (k >= 1) is the first page that yields no newly
\* accepted record, no list page after page k is fetched, and the file ends
\* up as the resumed records followed by the records of pages 1..k-1.
C3_StopsAtFirstEmptyPage ==
    \A k \in DOMAIN added_on :
        FirstEmptyPage(k) =>
            /\ list_fetches <= k
            /\ pc = "done" =>
                 /\ Len(rows) = Len(resumed) + SumSeq(added_on, k - 1)
                 /\ file.kind = "list" => file.recs = rows

\* C4: when the GET of a list page fails the run is Done and exits with
\* success, and the file holds what the flush of the page before wrote.
C4_FetchFailureEndsCrawl ==
    raised = "list page" =>
        /\ pc = "done"
        /\ exit_code = 0
        /\ writes > 0 => file = file_list(rows)

\* C5: at every instant, a process stop in the middle of a flush included,
\* the file is as the run found it or holds a complete record list; it is
\* never left empty or cut short by a flush.
C5_AtomicFlush ==
    file = start_file \/ file.kind = "list"

\* the record list as it was when the page before the current one was done
RowsOfEarlierPages ==
    IF pc \in { "flush", "flush_write" }
    THEN SubSeq(rows, 1, Len(rows) - Len(new_rows))
    ELSE rows

\* C6: the file holds every record accepted on the pages before the one
\* being handled, at every point of the handling of that page, so that a
\* process stop loses the records of that page at most.
C6_LosesAtMostOnePage ==
    \A i \in (Len(resumed) + 1)..Len(RowsOfEarlierPages) :
        /\ file.kind = "list"
        /\ \E j \in DOMAIN file.recs : file.recs[j] = RowsOfEarlierPages[i]

\* a line of robots.txt, as the parser sees it
RobotsField(line) == lower(strip(line))

IsAgentLine(line) == startswith(RobotsField(line), "user-agent:")

IsDisallowLine(line) == startswith(RobotsField(line), "disallow:")

RobotsValue(line) == strip(after_colon(strip(line)))

\* line i belongs to the wildcard group: the nearest User-agent line above
\* it names *
InWildcardGroup(lines, i) ==
    \E a \in 1..(i - 1) :
        /\ IsAgentLine(lines[a])
        /\ RobotsValue(lines[a]) = "*"
        /\ \A b \in (a + 1)..(i - 1) : ~ IsAgentLine(lines[b])

\* the wildcard group has a Disallow rule (a non-empty Disallow value) that
\* is a prefix of path
DisallowsPath(lines, path) ==
    \E i \in DOMAIN lines :
        /\ IsDisallowLine(lines[i])
        /\ InWildcardGroup(lines, i)
        /\ Len(RobotsValue(lines[i])) > 0
        /\ Len(RobotsValue(lines[i])) <= Len(path)
        /\ \A c \in 1..Len(RobotsValue(lines[i])) :
             char_at(RobotsValue(lines[i]), c) = char_at(path, c)

\* C7: when the wildcard group of robots.txt has a Disallow rule that is a
\* prefix of the target path, the run goes nowhere but to its end, and it
\* ends having made no list-page GET and no detail-page GET and having left
\* the file as it found it.
C7_RobotsDisallowBlocks ==
    /\ [][(pc = "robots" /\ DisallowsPath(txt, "/survey/")) => pc' \in { "denied", "killed" }]_vars
    /\ [](pc = "denied" =>
            /\ list_fetches = 0
            /\ detail_fetches = 0
            /\ writes = 0
            /\ file = start_file)

\* C7 witness: a run denied by a rule that is a proper prefix of the path,
\* with a resume file in place.
C7_Witness ==
    /\ pc = "denied"
    /\ DisallowsPath(txt, "/survey/")
    /\ \A i \in DOMAIN txt : RobotsValue(txt[i]) # "/survey/"
    /\ list_fetches = 0
    /\ file.kind = "list"

\* C8: a run that robots.txt denied exits with a status that is not the
\* success status, so that the pipeline's scrape step fails.
C8_DenialIsFailure ==
    pc = "denied" =>
        /\ exit_code # 0
        /\ scrape_step_fails(exit_code, file)

\* robots.txt is missing (the body is an error page), could not be fetched,
\* or has no line the parser reads as a directive
RobotsUnusable ==
    \/ raised = "robots.txt"
    \/ /\ pc \in { "robots", "denied" }
       /\ \A i \in DOMAIN txt : ~ IsAgentLine(txt[i]) /\ ~ IsDisallowLine(txt[i])

\* C9: when robots.txt is missing, cannot be fetched or cannot be parsed,
\* the check allows the crawl: the run does not end at the robots check.
C9_RobotsFailOpen ==
    RobotsUnusable =>
        /\ pc \notin { "denied", "crashed" }
        /\ pc = "robots" => robots_allowed(txt, url_path(URL))

\* the canonical label of the status tokens the list pages carry
StubLabel(token) ==
    CASE token \in { "Accepted", "accepted" } -> "Accepted"
      [] token = "rejected" -> "Rejected"
      [] token = "Waitlisted" -> "Wait listed"
      [] token = "Interview" -> "Interview"

\* the record of the stub f is in the record list q, with the stub's
\* program and status
HoldsFallback(q, f) ==
    \E i \in DOMAIN q :
        /\ q[i].entry_url = f.url
        /\ q[i].program = f.row.program
        /\ q[i].status = StubLabel(f.row.status_text)

\* C10: a stub with a well-formed, unseen identity whose detail fetch fails
\* is accepted with the program and status of the stub, the row loop goes on
\* with the next row, and once the page is flushed the record is in the file.
C10_DetailFailureFallback ==
    /\ [](\A f \in failed_stubs :
            /\ f.url # ""
            /\ HoldsFallback(rows \o (IF pc = "extract" THEN new_rows ELSE << >>), f)
            /\ pc \in { "fetch", "done", "crashed" } =>
                 (file.kind = "list" /\ HoldsFallback(file.recs, f)))
    /\ [][(pc = "extract" /\ failed_stubs' # failed_stubs /\ pc' # "killed") =>
            (pc' = "extract" /\ html' = html /\ tr' = tr + 1)]_vars

\* C10 witness: a run that returned after a detail fetch had failed on its
\* first page and a later page had been fetched, the record being in the file.
C10_Witness ==
    /\ pc = "done"
    /\ list_fetches >= 2
    /\ \E f \in failed_stubs : f.row.program # "" /\ HoldsFallback(file.recs, f)

\* the last element of a non-empty sequence
Last(q) == q[Len(q)]

BothDates(r) == r.acceptance_date # "" /\ r.rejection_date # ""

\* C11: no record the crawler produces, whatever the stub status, the detail
\* decision and the notification date, has both acceptance_date and
\* rejection_date non-empty.
C11_DateExclusivity ==
    /\ \A i \in DOMAIN rows : ~ BothDates(rows[i])
    /\ \A i \in DOMAIN new_rows : ~ BothDates(new_rows[i])
    /\ \A i \in DOMAIN file.recs : ~ BothDates(file.recs[i])

\* C11 witness: the row just accepted says Accepted, its detail page says
\* Rejected and carries a notification date, which the record holds.
C11_Witness ==
    /\ script = "module_4"
    /\ pc = "extract"
    /\ tr > 1
    /\ new_rows # << >>
    /\ html[tr - 1].status_text = "Accepted"
    /\ Last(new_rows).entry_url = entry_url_of(html, tr - 1, page_url_of(page))
    /\ dict_get(d, "decision") = "Rejected"
    /\ Last(new_rows).rejection_date = dict_get(d, "notification_on")
    /\ Last(new_rows).rejection_date # ""

\* C12: when the resume file holds at least TARGET records at startup, the
\* run makes no GET of a list page, page 1 included.
C12_FullResumeSkipsPageOne ==
    Len(resumed) >= TARGET => list_fetches = 0

\* C13: once a page has been processed and the record count is at least
\* TARGET, the run makes no further GET of a list page: its next step is to
\* return.
C13_TargetStopsCrawl ==
    [][(pc = "fetch" /\ Len(added_on) >= 1 /\ Len(rows) >= TARGET) =>
          (pc' = "killed" \/ (pc' = "done" /\ list_fetches' = list_fetches))]_vars

\* C13 witness: a run that returned with TARGET records, the last of them
\* accepted on page 2.
C13_Witness ==
    /\ pc = "done"
    /\ Len(rows) >= TARGET
    /\ Len(added_on) = 2
    /\ added_on[2] > 0
    /\ list_fetches = 2

\* where the site first shows the identity u: pages in order, rows in order
FirstSeenAt(u) ==
    LET at == { p * (MaxRows + 1) + i : p \in DOMAIN site, i \in 1..MaxRows }
        shown == { n \in at : \E p \in DOMAIN site : \E i \in DOMAIN site[p] :
                                  n = p * (MaxRows + 1) + i /\ StubAt(p, i, u) }
    IN  CHOOSE n \in shown : \A m \in shown : n <= m

\* the record list the run found in the file at startup
StartList == IF start_file.kind = "list" THEN start_file.recs ELSE << >>

\* C14: after every flush the file holds the record list found at startup,
\* same records in the same order, followed by the records this run
\* accepted, in the order in which the site showed them.
C14_AppendOnly ==
    (writes > 0 /\ file.kind = "list") =>
        /\ Len(file.recs) >= Len(StartList)
        /\ \A i \in DOMAIN StartList : file.recs[i] = StartList[i]
        /\ \A i, j \in (Len(StartList) + 1)..Len(file.recs) :
              i < j => FirstSeenAt(file.recs[i].entry_url) < FirstSeenAt(file.recs[j].entry_url)

\* C14 witness: a run that found records in the file, accepted two more and
\* flushed.
C14_Witness ==
    /\ pc = "done"
    /\ writes > 0
    /\ Len(StartList) >= 1
    /\ file.kind = "list"
    /\ Len(file.recs) >= Len(StartList) + 2

\* C15: after the resume load no step of the run takes an identity out of
\* the seen set; a step leaves it as it is or adds the entry_url of the
\* record it accepts.
C15_SeenMonotone ==
    [][(pc \notin { "start", "robots", "load" } /\ pc' \notin { "start", "killed" }) =>
          \/ seen' = seen
          \/ /\ Len(new_rows') = Len(new_rows) + 1
             /\ seen' = seen \cup { Last(new_rows').entry_url }]_vars

\* C15 witness: a finished run whose seen set holds the identities of the
\* resume file and one that it accepted.
C15_Witness ==
    /\ pc = "done"
    /\ urls_of(resumed) # {}
    /\ urls_of(resumed) \subseteq seen
    /\ \E u \in seen : u \notin urls_of(resumed)

\* C16: when the file is absent, or present and not a list of records, the
\* run goes on with an empty record list and an empty seen set and is not
\* ended by the load or by what the load left in rows.
C16_ResumeLoadNeverFatal ==
    start_file.kind # "list" =>
        /\ resumed = << >>
        /\ rows_is_list
        /\ raised # "rows.extend"
        /\ pc = "fetch" /\ list_fetches = 0 => (rows = << >> /\ seen = {})

\* the row has a status token and neither it nor the row before it has a
\* /result/ link
NoIdentity(trs, i) ==
    /\ trs[i].status_text # ""
    /\ trs[i].href = ""
    /\ i = 1 \/ trs[i - 1].href = ""

\* C17: a candidate row from which no /result/ identity can be derived
\* yields nothing: no record is appended, the seen set stays as it is and no
\* detail page is fetched; the row loop moves to the next row.
C17_IdentitylessDropped ==
    [][(script = "module_4" /\ pc = "extract" /\ tr <= Len(html) /\ pc' # "killed"
          /\ NoIdentity(html, tr)) =>
          /\ new_rows' = new_rows
          /\ rows' = rows
          /\ seen' = seen
          /\ detail_fetches' = detail_fetches
          /\ tr' = tr + 1]_vars

\* C17 witness: the first row of the page was a candidate row without
\* identity, and the row loop is past it with nothing accepted.
C17_Witness ==
    /\ script = "module_4"
    /\ pc = "extract"
    /\ tr = 2
    /\ NoIdentity(html, 1)
    /\ new_rows = << >>
    /\ detail_fetches = 0

\* the canonical label of a status text, by its stem
CanonicalLabel(token) ==
    LET low == lower(token)
    IN  CASE startswith(low, "accept") -> "Accepted"
          [] startswith(low, "reject") -> "Rejected"
          [] startswith(low, "wait") -> "Wait listed"
          [] startswith(low, "interview") -> "Interview"
          [] OTHER -> title(low)

\* this step of module_4's row loop accepts the row html[tr]: d' is the
\* detail dict and the last element of new_rows' is the record
AcceptsRow ==
    /\ script = "module_4"
    /\ pc = "extract"
    /\ pc' = "extract"
    /\ Len(new_rows') = Len(new_rows) + 1

\* C18 as stated: the status of a record is the decision of the detail page
\* when that is non-empty, and the normalized status of the stub otherwise.
C18_StatusIsDetailDecision ==
    [][AcceptsRow =>
          Last(new_rows').status =
              IF dict_get(d', "decision") # ""
              THEN dict_get(d', "decision")
              ELSE CanonicalLabel(html[tr].status_text)]_vars

\* C18 amended: the status of a record is the normalized decision of the
\* detail page when that is non-empty, and the normalized status of the stub
\* otherwise.
C18_StatusIsNormalizedDecision ==
    [][AcceptsRow =>
          Last(new_rows').status =
              IF dict_get(d', "decision") # ""
              THEN CanonicalLabel(dict_get(d', "decision"))
              ELSE CanonicalLabel(html[tr].status_text)]_vars

\* C18 witness: a record whose detail page says Waitlisted has the status
\* Wait listed, and a record in the same list has the status of its stub.
C18_Witness ==
    /\ script = "module_4"
    /\ pc = "extract"
    /\ Len(new_rows) = 2
    /\ dict_get(d, "decision") = "Waitlisted"
    /\ Last(new_rows).status = "Wait listed"
    /\ new_rows[1].gpa = ""
    /\ new_rows[1].status = "Accepted"

StubDate(trs, i) ==
    py_or(trs[i].date_text, IF has_prev(trs, i) THEN trs[i - 1].date_text ELSE "")

\* C20: when there is no notification date from a detail page and the
\* stub's context holds a date, that date is in acceptance_date of an
\* Accepted record and in rejection_date of a Rejected one.
C20_StubDateFallback ==
    [][(pc = "extract" /\ pc' = "extract" /\ Len(new_rows') = Len(new_rows) + 1
          /\ dict_get(d', "notification_on") = ""
          /\ StubDate(html, tr) # "") =>
          /\ Last(new_rows').status = "Accepted" =>
                Last(new_rows').acceptance_date = StubDate(html, tr)
          /\ Last(new_rows').status = "Rejected" =>
                Last(new_rows').rejection_date = StubDate(html, tr)]_vars

\* the value the merge rule gives a field
MergedField(detail_value, stub_value) ==
    IF detail_value # "" THEN detail_value ELSE stub_value

\* the comment the listing gives row i: the first quoted text of the
\* previous row and the row
StubComment(trs, i) ==
    IF has_prev(trs, i) /\ trs[i - 1].comment # "" THEN trs[i - 1].comment
    ELSE trs[i].comment

\* C21: degree, program, university and comments of a record hold the
\* detail value when that is non-empty and the stub value otherwise (the
\* stub of module_4 has no university), so an empty detail value never
\* erases a non-empty stub value.
C21_FieldMerge ==
    [][AcceptsRow =>
          LET r == Last(new_rows')
          IN  /\ r.degree = MergedField(dict_get(d', "degree"), html[tr].degree)
              /\ r.program = MergedField(dict_get(d', "program"), html[tr].program)
              /\ r.university = MergedField(dict_get(d', "university"), "")
              /\ r.comments = MergedField(dict_get(d', "notes"), StubComment(html, tr))
              /\ html[tr].degree # "" => r.degree # ""
              /\ html[tr].program # "" => r.program # ""
              /\ StubComment(html, tr) # "" => r.comments # ""]_vars

\* C21 witness: of two records of a page, the first has the program of its
\* detail page in place of the stub's, and the second, whose detail page
\* has no program, keeps the program and degree of its stub.
C21_Witness ==
    /\ script = "module_4"
    /\ pc = "extract"
    /\ tr = 3
    /\ Len(new_rows) = 2
    /\ html[1].program # ""
    /\ new_rows[1].program = "Physics"
    /\ dict_get(d, "program") = ""
    /\ dict_get(d, "decision") # ""
    /\ Last(new_rows).program = html[2].program
    /\ Last(new_rows).degree = "PhD"

\* C28 as stated, for its final result: a run whose fetches all returned
\* does not end in a crash (it ends done, or denied by robots.txt).
C28_EndsDoneWhenFetchesReturn ==
    pc = "crashed" => raised \in { "robots.txt", "list page" }

\* C29: a detail page is fetched only for a row whose identity is non-empty
\* and not in the seen set, and the identity is in the set afterwards; so
\* the detail fetches of a run are as many as the identities it added.
C29_OnlyUnseenEnriched ==
    /\ [][detail_fetches' = detail_fetches + 1 =>
            LET u == entry_url_of(html, tr, page_url_of(page))
            IN  /\ u # ""
                /\ u \notin seen
                /\ u \in seen']_vars
    /\ [](script = "module_4" =>
            detail_fetches = Cardinality(seen \ urls_of(resumed)))

\* C29 witness: the first row of a page has an identity the resume file
\* holds and is passed over, the second is new: one detail fetch.
C29_Witness ==
    /\ script = "module_4"
    /\ pc = "extract"
    /\ tr = 3
    /\ html[1].status_text # ""
    /\ entry_url_of(html, 1, page_url_of(page)) \in urls_of(resumed)
    /\ Len(new_rows) = 1
    /\ detail_fetches = 1

\* C30: after startup and after every page, the seen set is the set of
\* non-empty entry_url values of the record list; after a flush it is the
\* set of non-empty entry_url values of the file.
C30_SeenMatchesRecords ==
    /\ pc \in { "fetch", "flush", "flush_write", "done" } => seen = urls_of(rows)
    /\ (pc \in { "fetch", "done" } /\ writes > 0) =>
          /\ file.kind = "list"
          /\ seen = urls_of(file.recs)

\* C30 witness: page 1 added a record to a resume list that holds a record
\* without entry_url, and the file is written.
C30_Witness ==
    /\ pc = "fetch"
    /\ page = 2
    /\ writes = 1
    /\ \E i \in DOMAIN resumed : resumed[i].entry_url = ""
    /\ Len(rows) = Len(resumed) + 1
    /\ seen # {}
    /\ seen = urls_of(file.recs)

\* the request of thread t is answered or let in by this step
Arrives(t) == req[t].at = "idle" /\ req'[t].at # "idle"

\* no request is being handled
Quiet == \A t \in Reqs : req[t].at \in { "idle", "returned" }

\* C22: while the BUSY flag is set or the lock file exists, module_4
\* answers POST /pull-data and POST /update-analysis with 409 and busy,
\* starts no step and leaves the flag and the lock file as they are.
C22_BusyGating ==
    /\ [][\A t \in Reqs :
            (app = "module_4" /\ Arrives(t) /\ (BUSY \/ lock)) =>
                /\ req'[t].at = "returned"
                /\ req'[t].status = 409
                /\ req'[t].body = "busy"
                /\ req'[t].started = << >>
                /\ BUSY' = BUSY
                /\ lock' = lock]_vars
    /\ [](\A t \in Reqs :
            req[t].status = 409 => req[t].at = "returned" /\ req[t].started = << >>)

\* C22 witness: while the pull of one thread is at its clean step, the
\* other thread's POST /update-analysis was answered 409.
C22_Witness ==
    /\ app = "module_4"
    /\ BUSY
    /\ lock
    /\ req[1].at = "clean"
    /\ req[2].route = "/update-analysis"
    /\ req[2].at = "returned"
    /\ req[2].status = 409
    /\ req[2].body = "busy"

\* C23 as stated: once a POST /pull-data of module_4 that started the
\* pipeline has returned and no other request is being handled, the BUSY
\* flag is False and the lock file is absent.
C23_BusyReleased ==
    (app = "module_4" /\ Quiet
       /\ \E t \in Reqs : req[t].at = "returned" /\ req[t].started # << >>) =>
        /\ ~ BUSY
        /\ ~ lock

\* the steps of q are in the order of the pipeline, none twice
InPipelineOrder(q) ==
    \A i, j \in DOMAIN q : i < j => step_rank(q[i]) < step_rank(q[j])

\* the answer names the step: module_4 under the key "step", module_5 in
\* the message it redirects with
NamesStep(a, body, step) ==
    CASE a = "module_4" -> body = step
      [] a = "module_5" ->
            ( CASE step = "scrape" -> startswith(body, "Pull step failed in scrape.py")
                [] step = "clean" -> startswith(body, "Pull step failed in clean.py")
                [] step = "llm" -> startswith(body, "LLM step failed")
                [] step = "load" -> startswith(body, "Load step failed")
                [] OTHER -> FALSE )
      [] OTHER -> FALSE

\* a step is started only after the steps before it, and only while no
\* step has failed; module_4 passes over no step
StartsInOrder ==
    /\ [](\A t \in Reqs : InPipelineOrder(req[t].started))
    /\ [](\A t \in Reqs :
            app = "module_4" =>
                \A k \in DOMAIN req[t].started : req[t].started[k] = Steps[k])
    /\ [][\A t \in Reqs :
            req'[t].started # req[t].started =>
                /\ req[t].failed = ""
                /\ req[t].raised = ""]_vars
    /\ [](\A t \in Reqs :
            req[t].failed \in StepNames =>
                req[t].started # << >> /\ Last(req[t].started) = req[t].failed)

\* a pull of module_4 or module_5 that a failing step has ended
EndedByStep(t) ==
    /\ app \in { "module_4", "module_5" }
    /\ req[t].at = "returned"
    /\ req[t].failed \in StepNames
    /\ req[t].raised = ""

C25_AnyExceptionCaught ==
    \A t \in Reqs :
        (app = "module_5" /\ Quiet /\ req[t].at = "returned" /\ req[t].raised # "") =>
            /\ startswith(req[t].body, "Pull failed:")
            /\ ~ lock

\* C26 as stated: whatever record sets the pulls loaded, one pull after
\* the other, no record is in the applicants table twice.
C26_NoDuplicateRows ==
    (\A t \in Reqs : req[t].alone) =>
        \A i, j \in DOMAIN table :
            i # j =>
                /\ table[i].p_id # table[j].p_id
                /\ table[i].url = "" \/ table[i].url # table[j].url

\* the requests that are between the start of the pipeline and its end
InPipeline == { t \in Reqs : req[t].at \in StepNames \cup { "check" } }

\* C27 as stated: at most one request runs the pipeline at any time.
C27_MutualExclusion == Cardinality(InPipeline) <= 1

====
